---------------------------- MODULE Spec2Model ----------------------------
(***************************************************************************)
(* A model of the smart-home backend (src/Backend/# backend.py): the       *)
(* devices, sensors and events tables, the ConnectionManager's list of     *)
(* live websockets, and the request handlers as asyncio coroutines.  Each  *)
(* action is the code a coroutine runs between two of its awaits; the      *)
(* effect of the awaited operation (a database statement, a websocket      *)
(* send) is a step of its own where other coroutines can observe the time  *)
(* between the effect and the resumption.                                  *)
(***************************************************************************)
EXTENDS Integers, Sequences, FiniteSets, TLC

\* Number of mutating HTTP requests (update_device, trigger_sensor,
\* create_manual_log) a behaviour holds; they may all be in flight at once.
MaxReq == 2

ReqIds == 1 .. MaxReq

\* Ids that create_device's uuid4 can hand out, and one id no device ever has.
DeviceIds == {"d1"}
UnknownDevice == "dX"

\* The four sensors the startup hook seeds, and one id no sensor has.
SensorIds == {"s1", "s2", "s3", "s4"}
UnknownSensor == "sX"

\* The websockets that may connect to /ws, in the order they do.
WsIds == {"w1", "w2"}
WsOrder(w) == IF w = "w1" THEN 1 ELSE 2

VARIABLES
    devices,    \* devices table: id -> [name, type, state], state a JSON text
    sensors,    \* sensors table: id -> [name, type, is_triggered]
    events,     \* events table, rows in insertion order
    active,     \* manager.active: the list of registered websockets
    clock,      \* the wall clock datetime.utcnow() reads
    req,        \* the request coroutines: arguments, locals, position
    wsStatus,   \* each websocket: idle, open, stalled, closed, ended
    received,   \* the frames each observer has received, in order
    pending,    \* per websocket, the coroutines suspended in send_text on it
    created,    \* history: the state each device was created with
    published,  \* history: requests in the order their broadcast was called
    joinedAfter \* history: per websocket, the broadcasts begun before it connected

vars == <<devices, sensors, events, active, clock, req, wsStatus, received,
          pending, created, published, joinedAfter>>

-----------------------------------------------------------------------------
(* Python and JSON values *)

Range(s) == {s[i] : i \in DOMAIN s}

EmptyMap == <<>>

\* An Optional[dict]: None, or a dict.
PyNone == [some |-> FALSE, val |-> EmptyMap]
PyDict(m) == [some |-> TRUE, val |-> m]

\* Python truthiness of an Optional[dict]: None and {} are falsy.
Truthy(p) == p.some /\ DOMAIN p.val # {}

\* The order in which a JSON text lists the keys of an object.
KeyOrder == <<"on", "lvl", "sensor_id", "triggered">>

\* json.dumps of a dict: the text of an object, its members as key/value pairs.
DumpsDict(m) ==
    LET ks == SelectSeq(KeyOrder, LAMBDA k : k \in DOMAIN m)
    IN  [null |-> FALSE, members |-> [i \in DOMAIN ks |-> <<ks[i], m[ks[i]]>>]]

\* json.dumps of an Optional[dict]: None becomes the text null.
JsonDumps(p) == IF p.some THEN DumpsDict(p.val) ELSE [null |-> TRUE, members |-> <<>>]

\* json.loads of a JSON text: null becomes None, an object a dict.
JsonLoads(t) ==
    IF t.null THEN PyNone
    ELSE LET at(k) == CHOOSE i \in DOMAIN t.members : t.members[i][1] = k
         IN  PyDict([k \in {t.members[i][1] : i \in DOMAIN t.members} |->
                        t.members[at(k)][2]])

\* dict.update: every key of p overwrites, every other key of s stays.
DictUpdate(s, p) ==
    [k \in DOMAIN s \cup DOMAIN p |-> IF k \in DOMAIN p THEN p[k] ELSE s[k]]

\* dict.get(key, default)
Get(body, key, default) == IF key \in DOMAIN body THEN body[key] ELSE default

\* A nullable String column holding a JSON text.
SqlNull == [isnull |-> TRUE, text |-> JsonDumps(PyNone)]
SqlText(t) == [isnull |-> FALSE, text |-> t]

\* datetime.isoformat(): the text of a timestamp.
IsoFormat(t) == [iso |-> t]

\* uuid.uuid4() in request r: a value no other call returns.
Uuid4(r) == r

-----------------------------------------------------------------------------
(* Inputs *)

\* Request bodies of PATCH /devices/{id}.
Partials == {EmptyMap, [on |-> 1], [on |-> 0, lvl |-> 1]}

\* The PATCH requests: any partial for a device id that create_device hands
\* out, and one request for the id no device has.
UpdateInputs == (DeviceIds \X Partials) \cup {<<UnknownDevice, [on |-> 1]>>}

\* Bodies of POST /devices (DeviceIn).
DeviceInputs == {[name |-> "Lamp", type |-> "light", state |-> EmptyMap]}

\* Bodies of POST /sensors/{id}/trigger.
TriggerBodies == {EmptyMap, [value |-> FALSE]}

\* Bodies of POST /logs.
ManualBodies == {EmptyMap,
                 [level |-> "critical", source |-> "Simulator",
                  payload |-> PyDict([on |-> 1])],
                 [payload |-> PyDict(EmptyMap)]}

-----------------------------------------------------------------------------
(* State *)

NoEvt == [id |-> 0, now |-> 0, level |-> "", source |-> <<>>, payload |-> PyNone]

IdleReq == [op |-> "none", pc |-> "idle", id |-> "", body |-> EmptyMap,
            name |-> "", current_state |-> EmptyMap, evt |-> NoEvt,
            conns |-> <<>>, i |-> 0, conn |-> "", failed |-> {}, status |-> 0]

\* The seed rows of the startup hook.
SeedSensors ==
    [s \in SensorIds |->
        [name |-> CASE s = "s1" -> "Front Door"
                    [] s = "s2" -> "Living Room Motion"
                    [] s = "s3" -> "Kitchen Window"
                    [] OTHER    -> "Smoke Detector",
         type |-> CASE s = "s1" -> "door"
                    [] s = "s2" -> "motion"
                    [] s = "s3" -> "window"
                    [] OTHER    -> "alarm",
         is_triggered |-> 0]]

Init ==
    /\ devices = <<>>
    /\ sensors = SeedSensors
    /\ events = <<>>
    /\ active = <<>>
    /\ clock = 0
    /\ req = [r \in ReqIds |-> IdleReq]
    /\ wsStatus = [w \in WsIds |-> "idle"]
    /\ received = [w \in WsIds |-> <<>>]
    /\ pending = [w \in WsIds |-> <<>>]
    /\ created = <<>>
    /\ published = <<>>
    /\ joinedAfter = [w \in WsIds |-> {}]

-----------------------------------------------------------------------------
(* ConnectionManager *)

\* list.remove(x): the list without its first x.
ListRemove(l, x) ==
    LET k == CHOOSE j \in DOMAIN l : l[j] = x /\ \A h \in 1 .. (j - 1) : l[h] # x
    IN  [j \in 1 .. (Len(l) - 1) |-> IF j < k THEN l[j] ELSE l[j + 1]]

\* A faulty disconnect, used to test the eviction property: it drops the
\* last websocket of the list, not the one it was given.
disconnectPop(act, w) ==
    IF act = <<>> THEN act ELSE SubSeq(act, 1, Len(act) - 1)

\* ConnectionManager.disconnect: remove the websocket if it is registered.
disconnect(act, w) == IF w \in Range(act) THEN ListRemove(act, w) ELSE act

\* A faulty loop, used to test late-join isolation: it walks self.active
\* itself, not a copy.
IterListLive(snap, act) == act

\* A faulty loop, used to test publishes that overlap a disconnect: it
\* walks the websockets of the copy that are still registered.
IterListRegistered(snap, act) == SelectSeq(snap, LAMBDA w : w \in Range(act))

\* The list the loop of broadcast walks: list(self.active), the copy taken
\* when broadcast was called (snap), whatever self.active (act) is by now.
IterList(snap, act) == snap

\* The frame an observer reads: json.dumps of {"type": "event", "event": evt}.
Frame(evt) ==
    [type |-> "event",
     event |-> [id |-> evt.id, timestamp |-> IsoFormat(evt.now),
                level |-> evt.level, source |-> evt.source,
                payload |-> JsonDumps(evt.payload)]]

\* send_text on a websocket whose client has gone raises.
SendRaises(w) == wsStatus[w] \in {"closed", "ended"}

\* A faulty handler, used to test fan-out completeness: the except clause
\* leaves the loop.
AfterRaiseAbort(i, list) == Len(list) + 1

\* except: self.disconnect(conn) ends one turn of the loop, which goes on
\* with the next websocket of the list.
AfterRaise(i, list) == i + 1

\* The loop of broadcast from position i on, up to the await that suspends
\* or to the end of the list: a send that raises evicts its websocket and
\* the loop goes on; a send on a live websocket hands it the frame (an
\* observer that has stopped reading does not get it) and suspends.
RECURSIVE RunSends(_, _, _, _, _, _)
RunSends(evt, snap, i, act, rcv, failed) ==
    LET list == IterList(snap, act) IN
    IF i > Len(list)
    THEN [suspended |-> FALSE, i |-> i, act |-> act, rcv |-> rcv,
          failed |-> failed, on |-> ""]
    ELSE LET c == list[i] IN
         IF SendRaises(c)
         THEN RunSends(evt, snap, AfterRaise(i, list), disconnect(act, c), rcv,
                       failed \cup {c})
         ELSE [suspended |-> TRUE, i |-> i, act |-> act,
               rcv |-> IF wsStatus[c] = "open"
                       THEN [rcv EXCEPT ![c] = Append(@, Frame(evt))]
                       ELSE rcv,
               failed |-> failed, on |-> c]

\* A faulty handler, used to test that a failed send is no failed request:
\* the exception of a send reaches the caller, who is answered 500.
AnswerRaising(failed) == IF failed = {} THEN 200 ELSE 500

\* The answer of a handler whose log_event has returned: the except clause
\* of broadcast has swallowed what the sends raised, and the handler
\* returns {"ok": True}.
Answer(failed) == 200

\* The outcome of RunSends written to the state: the request either waits
\* for its send to return or has finished broadcast, log_event and its
\* handler, which answers {"ok": True}.
Broadcasting(r, snap, out, pend) ==
    /\ active' = out.act
    /\ received' = out.rcv
    /\ pending' = IF out.suspended
                  THEN [pend EXCEPT ![out.on] = Append(@, r)]
                  ELSE pend
    /\ req' = [req EXCEPT ![r].conns = snap,
                          ![r].i = out.i,
                          ![r].conn = out.on,
                          ![r].failed = out.failed,
                          ![r].pc = IF out.suspended THEN "await_send" ELSE "done",
                          ![r].status = IF out.suspended THEN 0
                                         ELSE Answer(out.failed)]

\* broadcast is called: the coroutine resumes after the insert, builds evt
\* and the message, copies the list and runs to its first send.
broadcast(r) ==
    /\ req[r].pc = "inserted"
    /\ Broadcasting(r, active,
                    RunSends(req[r].evt, active, 1, active, received, {}), pending)
    /\ published' = Append(published, r)
    /\ UNCHANGED <<devices, sensors, events, clock, wsStatus, created, joinedAfter>>

\* The await of send_text returns or raises: sends on one websocket complete
\* in the order they were started, and never on a websocket whose observer
\* has stopped reading.  The loop then runs to its next send.
send_return(r) ==
    /\ req[r].pc = "await_send"
    /\ LET c == req[r].conn IN
       /\ pending[c] # <<>>
       /\ Head(pending[c]) = r
       /\ wsStatus[c] # "stalled"
       /\ LET raised == SendRaises(c)
              act1 == IF raised THEN disconnect(active, c) ELSE active
              failed1 == IF raised THEN req[r].failed \cup {c} ELSE req[r].failed
              list == IterList(req[r].conns, active)
              next == IF raised THEN AfterRaise(req[r].i, list) ELSE req[r].i + 1
          IN  Broadcasting(r, req[r].conns,
                           RunSends(req[r].evt, req[r].conns, next, act1,
                                    received, failed1),
                           [pending EXCEPT ![c] = Tail(@)])
    /\ UNCHANGED <<devices, sensors, events, clock, wsStatus, created, published,
                   joinedAfter>>

\* ConnectionManager.connect: accept, then register.
connect(w) ==
    /\ wsStatus[w] = "idle"
    /\ \A v \in WsIds : WsOrder(v) < WsOrder(w) => wsStatus[v] # "idle"
    /\ wsStatus' = [wsStatus EXCEPT ![w] = "open"]
    /\ active' = Append(active, w)
    /\ joinedAfter' = [joinedAfter EXCEPT ![w] = Range(published)]
    /\ UNCHANGED <<devices, sensors, events, clock, req, received, pending,
                   created, published>>

\* The observer stops reading its connection without closing it.
ws_stall(w) ==
    /\ wsStatus[w] = "open"
    /\ wsStatus' = [wsStatus EXCEPT ![w] = "stalled"]
    /\ UNCHANGED <<devices, sensors, events, active, clock, req, received,
                   pending, created, published, joinedAfter>>

\* The client closes its connection.
ws_close(w) ==
    /\ wsStatus[w] \in {"open", "stalled"}
    /\ wsStatus' = [wsStatus EXCEPT ![w] = "closed"]
    /\ UNCHANGED <<devices, sensors, events, active, clock, req, received,
                   pending, created, published, joinedAfter>>

\* websocket_endpoint: receive_text raises WebSocketDisconnect and the
\* handler calls manager.disconnect.
websocket_endpoint_disconnect(w) ==
    /\ wsStatus[w] = "closed"
    /\ wsStatus' = [wsStatus EXCEPT ![w] = "ended"]
    /\ active' = disconnect(active, w)
    /\ UNCHANGED <<devices, sensors, events, clock, req, received, pending,
                   created, published, joinedAfter>>

-----------------------------------------------------------------------------
(* Handlers *)

\* Request r arrives: the requests are numbered in their order of arrival.
Arrives(r) ==
    /\ req[r].pc = "idle"
    /\ \A q \in ReqIds : q < r => req[q].pc # "idle"

\* log_event up to its insert: the id and the timestamp are taken, the
\* insert is issued.  The clock reads 1 the first time and has not gone
\* back since it was last read.
log_event(r, rec, level, source, payload) ==
    \E now \in (IF clock = 0 THEN {1} ELSE {clock, clock + 1}) :
        /\ clock' = now
        /\ req' = [req EXCEPT ![r] =
                      [rec EXCEPT !.evt = [id |-> Uuid4(r), now |-> now,
                                           level |-> level, source |-> source,
                                           payload |-> payload],
                                  !.pc = "await_insert"]]

\* The row log_event inserts.
EventRow(evt) ==
    [id |-> evt.id, timestamp |-> evt.now, level |-> evt.level,
     source |-> evt.source,
     payload |-> IF Truthy(evt.payload) THEN SqlText(JsonDumps(evt.payload))
                 ELSE SqlNull]

\* A faulty insert, used to test event-per-mutation: a row without a
\* payload is not stored.
InsertEventIfPayload(table, row) ==
    IF row.payload.isnull THEN table ELSE Append(table, row)

\* A faulty insert, used to test that the log is append-only: the table
\* keeps the newest row only.
InsertEventEvicting(table, row) == <<row>>

\* A faulty insert, used to test the order of store, log and frame: the
\* row is not stored.
InsertEventDropped(table, row) == table

\* The events table after the insert of a row.
InsertEvent(table, row) == Append(table, row)

\* The insert of log_event takes effect in the database.
log_event_insert(r) ==
    /\ req[r].pc = "await_insert"
    /\ events' = InsertEvent(events, EventRow(req[r].evt))
    /\ req' = [req EXCEPT ![r].pc = "inserted"]
    /\ UNCHANGED <<devices, sensors, active, clock, wsStatus, received, pending,
                   created, published, joinedAfter>>

\* create_device: one insert; the id is fresh.
create_device(d, din) ==
    /\ d \notin DOMAIN devices
    /\ LET row == [name |-> din.name, type |-> din.type,
                   state |-> JsonDumps(PyDict(din.state))]
       IN  devices' = [x \in DOMAIN devices \cup {d} |->
                          IF x = d THEN row ELSE devices[x]]
    /\ created' = [x \in DOMAIN created \cup {d} |->
                      IF x = d THEN din.state ELSE created[x]]
    /\ UNCHANGED <<sensors, events, active, clock, req, wsStatus, received,
                   pending, published, joinedAfter>>

\* db.fetch_one of the device with this id: its row, or None.
NoRow == [found |-> FALSE, name |-> "", type |-> "",
          state |-> JsonDumps(PyDict(EmptyMap))]
FetchOne(table, device_id) ==
    IF device_id \in DOMAIN table
    THEN [found |-> TRUE, name |-> table[device_id].name,
          type |-> table[device_id].type, state |-> table[device_id].state]
    ELSE NoRow

\* A faulty check, used to test the NotFound property: no check at all.
NotFoundUnchecked(row) == FALSE

\* if not row: the select found no device.
NotFound(row) == ~row.found

\* A faulty merge, used to test the merge law: the payload replaces the
\* state.
MergedStateReplace(row, payload) == payload

\* current_state after json.loads(row["state"]) and update(payload).
MergedState(row, payload) == DictUpdate(JsonLoads(row.state).val, payload)

\* update_device up to its update statement: the row is fetched; without a
\* row the handler raises HTTPException(404), with one it merges the
\* payload into the state it read and issues the update.
update_device_fetch(r, device_id, payload) ==
    /\ Arrives(r)
    /\ LET rec == [req[r] EXCEPT !.op = "update", !.id = device_id,
                                 !.body = payload]
           row == FetchOne(devices, device_id)
       IN  IF NotFound(row)
           THEN req' = [req EXCEPT ![r] = [rec EXCEPT !.pc = "done",
                                                      !.status = 404]]
           ELSE IF ~row.found
           THEN \* row["state"] of None raises TypeError: the server answers 500
                req' = [req EXCEPT ![r] = [rec EXCEPT !.pc = "done",
                                                      !.status = 500]]
           ELSE req' = [req EXCEPT ![r] =
                           [rec EXCEPT !.pc = "await_update",
                                       !.name = row.name,
                                       !.current_state = MergedState(row, payload)]]
    /\ UNCHANGED <<devices, sensors, events, active, clock, wsStatus, received,
                   pending, created, published, joinedAfter>>

\* The update of update_device takes effect and the handler calls log_event.
update_device_write(r) ==
    /\ req[r].pc = "await_update"
    /\ devices' = [devices EXCEPT ![req[r].id].state =
                      JsonDumps(PyDict(req[r].current_state))]
    /\ log_event(r, req[r], "info", <<"Device Update: ", req[r].name>>,
                 PyDict(req[r].current_state))
    /\ UNCHANGED <<sensors, events, active, wsStatus, received, pending, created,
                   published, joinedAfter>>

\* A faulty update, used to test the trigger of an unknown sensor: a
\* sensor that does not exist is created.
UpsertSensor(table, sensor_id, val) ==
    [s \in DOMAIN table \cup {sensor_id} |->
        IF s = sensor_id
        THEN [name |-> "", type |-> "", is_triggered |-> IF val THEN 1 ELSE 0]
        ELSE table[s]]

\* sensors.update().where(sensors.c.id == sensor_id).values(is_triggered=
\* int(val)): the rows with this id, if any, get the flag.
UpdateSensor(table, sensor_id, val) ==
    [s \in DOMAIN table |->
        IF s = sensor_id
        THEN [table[s] EXCEPT !.is_triggered = IF val THEN 1 ELSE 0]
        ELSE table[s]]

\* trigger_sensor up to the insert of log_event: the update sets the flag
\* of the rows with this id, and the handler calls log_event.
trigger_sensor(r, sensor_id, body) ==
    /\ Arrives(r)
    /\ LET val == Get(body, "value", TRUE)
           rec == [req[r] EXCEPT !.op = "trigger", !.id = sensor_id,
                                 !.body = body]
       IN  /\ sensors' = UpdateSensor(sensors, sensor_id, val)
           /\ log_event(r, rec, IF val THEN "warn" ELSE "info",
                        <<"Sensor Update">>,
                        PyDict([sensor_id |-> sensor_id, triggered |-> val]))
    /\ UNCHANGED <<devices, events, active, wsStatus, received, pending, created,
                   published, joinedAfter>>

\* create_manual_log up to the insert of log_event.
create_manual_log(r, body) ==
    /\ Arrives(r)
    /\ log_event(r, [req[r] EXCEPT !.op = "log", !.body = body],
                 Get(body, "level", "info"), <<Get(body, "source", "Manual")>>,
                 Get(body, "payload", PyNone))
    /\ UNCHANGED <<devices, sensors, events, active, wsStatus, received, pending,
                   created, published, joinedAfter>>

\* The values of the limit parameter of GET /events.
Limits == 0 .. MaxReq

\* EventOut of a row: a NULL payload reads as None, a text through
\* json.loads.
EventOut(row) ==
    [id |-> row.id, timestamp |-> row.timestamp, level |-> row.level,
     source |-> row.source,
     payload |-> IF row.payload.isnull THEN PyNone
                 ELSE JsonLoads(row.payload.text)]

\* ORDER BY timestamp DESC: the orders in which the database may hand out
\* the rows of a table.  The query names no other key, so rows with equal
\* timestamps come in an order the database chooses, query by query.
OrderByTimestampDesc(table) ==
    {p \in [DOMAIN table -> DOMAIN table] :
        /\ \A i, j \in DOMAIN table : i # j => p[i] # p[j]
        /\ \A i, j \in DOMAIN table :
              i < j => table[p[i]].timestamp >= table[p[j]].timestamp}

\* get_events: the answers GET /events?limit=n can give on a table: the
\* first n rows of the ordered rows, each as an EventOut.
get_events(table, limit) ==
    {[i \in 1 .. (IF limit < Len(table) THEN limit ELSE Len(table)) |->
         EventOut(table[p[i]])] : p \in OrderByTimestampDesc(table)}

-----------------------------------------------------------------------------
(* Specification *)

\* A request arrives and runs to its first suspension.
Arrival ==
    \/ \E r \in ReqIds, inp \in UpdateInputs : update_device_fetch(r, inp[1], inp[2])
    \/ \E r \in ReqIds, sensor_id \in {"s1", UnknownSensor},
          body \in TriggerBodies : trigger_sensor(r, sensor_id, body)
    \/ \E r \in ReqIds, body \in ManualBodies : create_manual_log(r, body)

\* The statement a coroutine awaits takes effect in the database, and the
\* coroutine runs on to its next await.
Statement ==
    \/ \E r \in ReqIds : update_device_write(r)
    \/ \E r \in ReqIds : log_event_insert(r)
    \/ \E r \in ReqIds : broadcast(r)

\* Observers come and go.
Observers ==
    \/ \E w \in WsIds : connect(w)
    \/ \E w \in WsIds : ws_close(w)
    \/ \E w \in WsIds : websocket_endpoint_disconnect(w)

NewDevice == \E d \in DeviceIds, din \in DeviceInputs : create_device(d, din)

Next ==
    \/ Arrival
    \/ Statement
    \/ \E r \in ReqIds : send_return(r)
    \/ Observers
    \/ NewDevice

\* The application: any number of requests of any kind in flight at once,
\* observers connecting and closing at any time.
Spec == Init /\ [][Next]_vars

\* The store and the log with no observer connected: every broadcast finds
\* an empty list.
StoreNext == Arrival \/ Statement \/ NewDevice

SpecStore == Init /\ [][StoreNext]_vars

\* No request is in flight.
Quiet == \A r \in ReqIds : req[r].pc \in {"idle", "done"}

\* The store and the log with requests one after another, none
\* overlapping another.
SeqNext == (Quiet /\ Arrival) \/ Statement \/ NewDevice

SpecSeq == Init /\ [][SeqNext]_vars

\* The hub: every request is POST /sensors/s1/trigger with an empty body
\* or PATCH /devices/{id} for an id that matches no device, any number of
\* them in flight at once, observers connecting and closing at any time.
HubNext ==
    \/ \E r \in ReqIds : trigger_sensor(r, "s1", EmptyMap)
    \/ \E r \in ReqIds : update_device_fetch(r, UnknownDevice, [on |-> 1])
    \/ NewDevice
    \/ \E r \in ReqIds : log_event_insert(r)
    \/ \E r \in ReqIds : broadcast(r)
    \/ \E r \in ReqIds : send_return(r)
    \/ Observers

SpecHub == Init /\ [][HubNext]_vars

\* The way of a mutation through store, log and hub: every request is
\* PATCH /devices/{id} {"on": 1} for an id create_device hands out, any
\* number of them in flight at once, observers connecting and closing at
\* any time.
PipeNext ==
    \/ \E r \in ReqIds, d \in DeviceIds : update_device_fetch(r, d, [on |-> 1])
    \/ \E r \in ReqIds : update_device_write(r)
    \/ \E r \in ReqIds : log_event_insert(r)
    \/ \E r \in ReqIds : broadcast(r)
    \/ \E r \in ReqIds : send_return(r)
    \/ Observers
    \/ NewDevice

SpecPipe == Init /\ [][PipeNext]_vars

\* The hub with observers that may stop reading, under the asyncio event
\* loop and a database that completes its statements: a coroutine that can
\* resume does.
StallNext == HubNext \/ \E w \in WsIds : ws_stall(w)

FairHub ==
    /\ Init /\ [][StallNext]_vars
    /\ \A r \in ReqIds :
          WF_vars(log_event_insert(r) \/ broadcast(r) \/ send_return(r))

-----------------------------------------------------------------------------
(* Properties *)

\* The state a device holds, as list_devices reads it.
StoredState(d) == JsonLoads(devices[d].state).val

\* The update_device requests on device d that were accepted, and those of
\* them whose update statement has taken effect.
Accepted(d) ==
    {r \in ReqIds : req[r].op = "update" /\ req[r].id = d /\ req[r].pc # "idle"
                    /\ req[r].status \notin {404, 500}}
Written(d) == {r \in Accepted(d) : req[r].pc # "await_update"}

\* The states that merging the partials of the requests U into s0 one
\* after the other, in some order, can give.
RECURSIVE SerialOutcomes(_, _)
SerialOutcomes(s0, U) ==
    IF U = {} THEN {s0}
    ELSE UNION {SerialOutcomes(DictUpdate(s0, req[r].body), U \ {r}) : r \in U}

\* The left fold of the partials of the requests of U, in arrival order,
\* over s0.
RECURSIVE LeftFold(_, _)
LeftFold(s0, U) ==
    IF U = {} THEN s0
    ELSE LET r == CHOOSE x \in U : \A y \in U : x <= y
         IN  LeftFold(DictUpdate(s0, req[r].body), U \ {r})

\* C1: once every accepted update_device request on a device has written,
\* the stored state is the merge of all their partials over the state the
\* device was created with, applied one after the other in some order: no
\* key written by a concurrent request is lost.
C1_ConcurrentUpdatesMerge ==
    \A d \in DOMAIN devices :
        Written(d) = Accepted(d)
            => StoredState(d) \in SerialOutcomes(created[d], Accepted(d))

\* C2: with requests executed one after another, the stored state of every
\* device is the left fold of the shallow merges of the partials written so
\* far, in order, over the state it was created with.
C2_MergeLaw ==
    \A d \in DOMAIN devices : StoredState(d) = LeftFold(created[d], Written(d))

\* Two updates were merged into a device one after the other: the second
\* overwrote one key of the first and kept the other.
C2_Witness ==
    \E d \in DOMAIN devices :
        /\ \E r1, r2 \in Written(d) :
              /\ r1 < r2
              /\ req[r1].body = [on |-> 0, lvl |-> 1]
              /\ req[r2].body = [on |-> 1]
        /\ StoredState(d) = [on |-> 1, lvl |-> 1]

\* The position of the event with this id in a list of rows or of requests.
RowOf(id) == CHOOSE k \in DOMAIN events : events[k].id = id
CallOf(r) == CHOOSE k \in DOMAIN published : published[k] = r

\* The request whose event a frame carries (Uuid4 gives request r the id r).
FrameReq(f) == f.event.id

\* C3: every observer receives events in the order in which they were
\* committed to the event log.
C3_CommitOrderDelivery ==
    \A w \in WsIds : \A i, j \in DOMAIN received[w] :
        i < j => RowOf(received[w][i].event.id) < RowOf(received[w][j].event.id)

\* C4: every observer receives events in the order in which broadcast was
\* called for them.
C4_PublishOrderDelivery ==
    \A w \in WsIds : \A i, j \in DOMAIN received[w] :
        i < j => CallOf(FrameReq(received[w][i])) < CallOf(FrameReq(received[w][j]))

\* The number of frames of request r's event that observer w has received.
Copies(w, r) ==
    Cardinality({k \in DOMAIN received[w] : received[w][k].event.id = Uuid4(r)})

\* C5: an observer that has stopped reading stalls nobody: a request whose
\* event is stored returns, and the event reaches every observer of the
\* broadcast that stays connected and reading.
C5_SlowObserverStallsNobody ==
    /\ \A r \in ReqIds : (req[r].pc = "inserted") ~> (req[r].pc = "done")
    /\ \A r \in ReqIds, w \in WsIds :
          (req[r].pc = "await_send" /\ w \in Range(req[r].conns))
              ~> (Copies(w, r) = 1 \/ wsStatus[w] # "open")

\* The requests whose insert into the events table has taken effect.
Inserted == {r \in ReqIds : \/ req[r].pc \in {"inserted", "await_send"}
                            \/ req[r].pc = "done" /\ req[r].status = 200}

\* C6: the events table holds exactly one row for every request that has
\* passed its insert and no other row, so every update_device and
\* trigger_sensor that returned success added exactly one event.
C6_OneEventPerMutation ==
    /\ Len(events) = Cardinality(Inserted)
    /\ \A r \in ReqIds :
          (req[r].op \in {"update", "trigger"} /\ req[r].pc = "done"
           /\ req[r].status = 200)
              => Cardinality({k \in DOMAIN events : events[k].id = Uuid4(r)}) = 1

\* An update_device and a trigger_sensor have both returned success, the
\* update with an empty merged state.
C6_Witness ==
    \E r1, r2 \in ReqIds :
        /\ req[r1].op = "update" /\ req[r1].pc = "done" /\ req[r1].status = 200
        /\ req[r1].current_state = EmptyMap
        /\ req[r2].op = "trigger" /\ req[r2].pc = "done" /\ req[r2].status = 200
        /\ Len(events) = 2

\* Request r leaves no trace in the log or at any observer.
NoTrace(r) ==
    /\ \A k \in DOMAIN events : events[k].id # Uuid4(r)
    /\ \A w \in WsIds : Copies(w, r) = 0

\* C7: an update_device for an id that matches no device answers 404 in
\* the step it arrives, and that step changes no table, no registry and no
\* observer; the request never leaves an event or a frame.
C7_UnknownDeviceNoEffect ==
    [][ \A r \in ReqIds :
          /\ (req[r].pc = "idle" /\ req'[r].op = "update"
              /\ req'[r].id \notin DOMAIN devices)
                => /\ req'[r].pc = "done"
                   /\ req'[r].status = 404
                   /\ UNCHANGED <<devices, sensors, events, active, received,
                                  pending, published>>
          /\ (req'[r].status = 404 => NoTrace(r)')
      ]_vars

\* An update_device for an unknown id was answered 404 while a device with
\* a state, an event and a registered observer existed.
C7_Witness ==
    \E r \in ReqIds :
        /\ req[r].op = "update" /\ req[r].status = 404 /\ req[r].pc = "done"
        /\ req[r].id = UnknownDevice
        /\ devices # <<>> /\ events # <<>> /\ active # <<>>

\* C8: no observer ever holds two frames of one event, and when a broadcast
\* has returned, every observer that was registered when it began and whose
\* send did not raise holds exactly one.
C8_FanOutCompleteness ==
    \A r \in ReqIds :
        /\ \A w \in WsIds : Copies(w, r) <= 1
        /\ (req[r].pc = "done" /\ req[r].status = 200)
              => \A w \in Range(req[r].conns) \ req[r].failed : Copies(w, r) = 1

\* A broadcast to two observers has returned: the send to the first raised
\* and the second holds its frame.
C8_Witness ==
    \E r \in ReqIds :
        /\ req[r].pc = "done" /\ req[r].status = 200
        /\ req[r].conns = <<"w1", "w2">>
        /\ req[r].failed = {"w1"}
        /\ Copies("w2", r) = 1

\* C9: an observer holds no frame of an event whose broadcast had begun
\* when its connect completed.
C9_LateJoinIsolation ==
    \A w \in WsIds : \A r \in joinedAfter[w] : Copies(w, r) = 0

\* An observer connected while a broadcast was suspended in a send, the
\* broadcast has since returned, and the observer is registered and has
\* received a later event.
C9_Witness ==
    \E w \in WsIds, r \in ReqIds :
        /\ r \in joinedAfter[w]
        /\ req[r].pc = "done"
        /\ w \in Range(active)
        /\ received[w] # <<>>

\* v comes before w in the list.
RegisteredBefore(act, v, w) ==
    \E i, j \in DOMAIN act : i < j /\ act[i] = v /\ act[j] = w

\* The websockets whose send raised in this step.
Evicted(w) == \E r \in ReqIds : w \in req'[r].failed /\ w \notin req[r].failed
HandlerDisconnects(w) == wsStatus[w] = "closed" /\ wsStatus'[w] = "ended"

\* C10: a step removes a websocket from the registry only if a send to it
\* raised in that step or its handler disconnects it, and the websockets
\* that remain keep their order; a websocket whose send raised is not
\* registered afterwards; a websocket once removed is never registered
\* again; and the handler's disconnect of a websocket already removed
\* changes nothing.
C10_EvictionSafety ==
    [][ /\ \A w \in WsIds :
            /\ (w \in Range(active) /\ w \notin Range(active'))
                  => (Evicted(w) \/ HandlerDisconnects(w))
            /\ Evicted(w) => w \notin Range(active')
            /\ (w \notin Range(active) /\ wsStatus[w] # "idle")
                  => w \notin Range(active')
            /\ (HandlerDisconnects(w) /\ w \notin Range(active))
                  => active' = active
        /\ \A v, w \in Range(active) \cap Range(active') :
              (RegisteredBefore(active, v, w)) => RegisteredBefore(active', v, w)
      ]_vars

\* A send to the first of two observers raised and evicted it, its handler
\* disconnected it afterwards, and the second is still registered and holds
\* the frame of that event.
C10_Witness ==
    \E r \in ReqIds :
        /\ "w1" \in req[r].failed
        /\ wsStatus["w1"] = "ended"
        /\ active = <<"w2">>
        /\ Copies("w2", r) = 1

\* The row of request r's event is in the events table.
Stored(r) == \E k \in DOMAIN events : events[k].id = Uuid4(r)

\* A send of request r's broadcast raised in this step.
SendFailed(r) == req'[r].failed # req[r].failed

\* C11: a step in which a send of a broadcast raises changes no table, so
\* the state written and the event appended by the request stay as they
\* are, and it does not make the request fail; a request whose broadcast
\* has ended, whatever sends raised, is answered success.
C11_BroadcastFailureNoOperationFailure ==
    [][ \A r \in ReqIds :
          /\ SendFailed(r)
                => /\ UNCHANGED <<devices, sensors, events>>
                   /\ Stored(r)'
                   /\ req'[r].status \in {0, 200}
          /\ (req[r].pc \in {"inserted", "await_send"} /\ req'[r].pc = "done")
                => req'[r].status = 200 /\ Stored(r)'
      ]_vars

\* An update_device whose sends to both observers raised was answered
\* success; the state it wrote and its event are in place.
C11_Witness ==
    \E r \in ReqIds :
        /\ req[r].op = "update" /\ req[r].pc = "done" /\ req[r].status = 200
        /\ req[r].conns = <<"w1", "w2">>
        /\ req[r].failed = {"w1", "w2"}
        /\ req[r].current_state # EmptyMap
        /\ JsonLoads(devices[req[r].id].state).val = req[r].current_state
        /\ Stored(r)

\* l1 is a prefix of l2.
IsPrefix(l1, l2) == Len(l1) <= Len(l2) /\ \A i \in DOMAIN l1 : l1[i] = l2[i]

\* C12: every answer of get_events is in non-increasing timestamp order,
\* and on one log every answer for a limit n1 is a prefix of every answer
\* for a larger limit n2, events with equal timestamps included.
C12_ListOrderedAndPrefix ==
    /\ \A n \in Limits : \A l \in get_events(events, n) :
          \A i, j \in DOMAIN l : i < j => l[i].timestamp >= l[j].timestamp
    /\ \A n1, n2 \in Limits :
          n1 < n2 => \A l1 \in get_events(events, n1) :
                         \A l2 \in get_events(events, n2) : IsPrefix(l1, l2)

\* The ids of the n rows appended last, the newest first.
LatestAppended(table, n) ==
    [i \in 1 .. (IF n < Len(table) THEN n ELSE Len(table)) |->
        table[Len(table) + 1 - i].id]

\* Timestamps do not decrease along the log.
TimestampsMonotone ==
    \A i, j \in DOMAIN events : i < j => events[i].timestamp <= events[j].timestamp

\* C13: an event stored before another carries a timestamp that is not
\* later, so get_events(limit) answers the limit events appended last, the
\* newest first, also when log_event calls overlap.
C13_TimestampsFollowAppendOrder ==
    /\ TimestampsMonotone
    /\ \A n \in Limits : \A l \in get_events(events, n) :
          [i \in DOMAIN l |-> l[i].id] = LatestAppended(events, n)

\* C14: the event log is append-only: every step leaves every stored row
\* where it was, with the same id, timestamp, level, source and payload,
\* and at most adds rows after them.
C14_LogAppendOnly == [][IsPrefix(events, events')]_vars

\* The log holds the rows of two requests, the first of which has since
\* finished its broadcast and returned.
C14_Witness ==
    /\ Len(events) >= 2
    /\ events[1].id # events[2].id
    /\ req[events[1].id].pc = "done"
    /\ req[events[2].id].pc = "done"

\* C15: a trigger_sensor for an id that matches no sensor is accepted and
\* goes on to log its event; the step leaves the sensors table as it was,
\* flags and set of rows; and the request, once it returns, is answered
\* success.
C15_UnknownSensorNoOp ==
    [][ \A r \in ReqIds :
          /\ (req[r].pc = "idle" /\ req'[r].op = "trigger"
              /\ req'[r].id \notin DOMAIN sensors)
                => /\ sensors' = sensors
                   /\ req'[r].pc = "await_insert"
          /\ (req'[r].op = "trigger" /\ req'[r].pc = "done")
                => req'[r].status = 200
          /\ DOMAIN sensors' = SensorIds
      ]_vars

\* A trigger of an unknown sensor has returned success after another
\* request had set the flag of a sensor, which is still set.
C15_Witness ==
    \E r, q \in ReqIds :
        /\ req[r].op = "trigger" /\ req[r].id = UnknownSensor
        /\ req[r].pc = "done" /\ req[r].status = 200
        /\ q < r /\ req[q].op = "trigger" /\ req[q].id = "s1"
        /\ sensors["s1"].is_triggered = 1
        /\ DOMAIN sensors = SensorIds

\* The request that appended a row (Uuid4 gives request r the id r).
RowReq(row) == row.id

\* The level and the source of every logged event follow the mapping: a
\* trigger with value true logs warn, with value false info, an update
\* info with a source that names the device.
LevelAndSourceMapping ==
    \A k \in DOMAIN events :
        LET e == EventOut(events[k])
            r == RowReq(events[k])
        IN  /\ req[r].op = "trigger"
                  => e.level = (IF Get(req[r].body, "value", TRUE)
                                THEN "warn" ELSE "info")
            /\ req[r].op = "update"
                  => /\ e.level = "info"
                     /\ e.source = <<"Device Update: ", devices[req[r].id].name>>

\* C16: the event appended for a mutation follows the mapping: trigger on
\* is warn, trigger off is info, and the event of an update_device is info,
\* names the device in its source and has as payload the merged state the
\* same call wrote to the devices table.
C16_EventMapping ==
    /\ LevelAndSourceMapping
    /\ \A k \in DOMAIN events :
          LET e == EventOut(events[k])
              r == RowReq(events[k])
          IN  req[r].op = "update" => e.payload = PyDict(req[r].current_state)

\* Observer w receives a frame in this step, and the request whose event
\* the frame carries.
Receives(w) == Len(received'[w]) > Len(received[w])
ReceivedReq(w) == FrameReq(received'[w][Len(received'[w])])

\* The state change of request r is in the store, unless a later write of
\* another request to the same row has replaced it.
Applied(r) ==
    /\ req[r].op = "update"
          => /\ req[r].id \in DOMAIN devices
             /\ \/ StoredState(req[r].id) = req[r].current_state
                \/ \E q \in Written(req[r].id) : q # r
    /\ (req[r].op = "trigger" /\ req[r].id \in DOMAIN sensors)
          => \/ sensors[req[r].id].is_triggered =
                   (IF Get(req[r].body, "value", TRUE) THEN 1 ELSE 0)
             \/ \E q \in ReqIds : /\ q # r /\ req[q].op = "trigger"
                                  /\ req[q].id = req[r].id

\* C17: when an observer receives the frame of an event, the event was
\* already in the events table before that step, the insert of its
\* log_event had returned, and the state change of its request had been
\* applied to the store.
C17_StoreThenLogThenFrame ==
    [][ \A w \in WsIds :
          Receives(w) =>
              LET r == ReceivedReq(w)
              IN  /\ Stored(r)
                  /\ req[r].pc \in {"inserted", "await_send"}
                  /\ Applied(r)
      ]_vars

\* An observer holds the frame of an update_device whose merged state is
\* in the devices table and whose event is in the log.
C17_Witness ==
    \E w \in WsIds, r \in ReqIds :
        /\ Copies(w, r) = 1
        /\ req[r].op = "update"
        /\ req[r].current_state # EmptyMap
        /\ StoredState(req[r].id) = req[r].current_state
        /\ Stored(r)

\* A send of request r's broadcast to observer w was attempted: it handed
\* over the frame or it raised.
Attempted(w, r) == Copies(w, r) = 1 \/ w \in req[r].failed

\* The sends of request r's broadcast so far are one to each websocket of
\* the list registered when it began, in the order of that list, and none
\* to any other websocket.
OneSendEach(r) ==
    LET snap == req[r].conns IN
    /\ \A w \in WsIds : Copies(w, r) <= 1
    /\ \A w \in WsIds \ Range(snap) : ~Attempted(w, r)
    /\ \A k \in DOMAIN snap :
          /\ (req[r].pc = "done" \/ k <= req[r].i) => Attempted(snap[k], r)
          /\ (req[r].pc = "await_send" /\ k > req[r].i) => ~Attempted(snap[k], r)

\* C18: a broadcast walks the list of websockets registered when it was
\* called, whatever connects or disconnects while it is suspended in a
\* send: it attempts one send to each of them and none to any other, and
\* it ends without an error.
C18_PublishUnderChurn ==
    [][ \A r \in ReqIds :
          /\ (req[r].pc = "inserted" /\ req'[r].pc # "inserted")
                => req'[r].conns = active
          /\ (req[r].pc = "await_send") => req'[r].conns = req[r].conns
          /\ OneSendEach(r)'
          /\ (req[r].pc \in {"inserted", "await_send"} /\ req'[r].pc = "done")
                => req'[r].status = 200
      ]_vars

\* A broadcast to one observer has ended: while it was suspended in its
\* send the observer closed and its handler disconnected it, and a second
\* observer connected, which got no frame of that event.
C18_Witness ==
    \E r \in ReqIds :
        /\ req[r].pc = "done" /\ req[r].status = 200
        /\ req[r].conns = <<"w1">>
        /\ Copies("w1", r) = 1 /\ "w1" \in req[r].failed
        /\ wsStatus["w1"] = "ended"
        /\ r \in joinedAfter["w2"]
        /\ active = <<"w2">>
        /\ Copies("w2", r) = 0

\* The rows of the events table that carry the id of request r.
RowsOf(r) == {k \in DOMAIN events : events[k].id = Uuid4(r)}

\* The event a create_manual_log request has appended is one row with the
\* level and the source of its body, or their defaults.
ManualLevelAndSource(r) ==
    /\ Cardinality(RowsOf(r)) = 1
    /\ \A k \in RowsOf(r) :
          /\ EventOut(events[k]).level = Get(req[r].body, "level", "info")
          /\ EventOut(events[k]).source = <<Get(req[r].body, "source", "Manual")>>

\* The steps of create_manual_log requests leave the devices and the
\* sensors tables as they were.
ManualBypassesStore ==
    \A r \in ReqIds :
        (req'[r].op = "log" /\ req'[r] # req[r])
            => UNCHANGED <<devices, sensors>>

\* A create_manual_log whose broadcast has returned has handed its frame
\* to every observer of the broadcast whose send did not raise.
ManualPublished(r) ==
    req[r].pc = "done"
        => \A w \in Range(req[r].conns) \ req[r].failed : Copies(w, r) = 1

\* C19: a create_manual_log goes the way of every event and past the
\* store: once its insert has taken effect the log holds exactly one event
\* of it, with the level, the source and the payload it was given; that
\* event is published to the registered observers; and its steps leave
\* every device and every sensor unchanged.
C19_ManualLogSamePath ==
    [][ /\ ManualBypassesStore
        /\ \A r \in ReqIds :
              (req'[r].op = "log" /\ r \in Inserted')
                  => /\ ManualLevelAndSource(r)'
                     /\ ManualPublished(r)'
                     /\ \A k \in RowsOf(r)' :
                           EventOut(events'[k]).payload
                               = Get(req'[r].body, "payload", PyNone)
      ]_vars

\* The payload an observer reads from a frame: json.loads of its text.
FramePayload(f) == JsonLoads(f.event.payload)

\* C20: for every event, the payload of the frame handed to an observer
\* equals the payload get_events answers for the same event id, the empty
\* mapping included.
C20_FramePayloadEqualsStored ==
    \A w \in WsIds : \A j \in DOMAIN received[w] :
        \A n \in Limits : \A l \in get_events(events, n) :
            \A i \in DOMAIN l :
                l[i].id = received[w][j].event.id
                    => l[i].payload = FramePayload(received[w][j])

=============================================================================
